---- MODULE Spec2Model ----
(***************************************************************************)
(* Model of cmd/root.go of tdl: the root command's startup hook            *)
(* (PersistentPreRunE) with the automatic legacy -> bolt migration         *)
(* (migrateLegacyToBolt), the session bootstrap (tRun), the teardown hook  *)
(* (PersistentPostRunE) and Execute.  The kv storage package, tclient.New  *)
(* and tclient.RunWithAuth are not part of root.go; their operations are   *)
(* modelled from the specification of the storage layer.                   *)
(***************************************************************************)
EXTENDS Naturals, Sequences, FiniteSets, TLC

VARIABLES
    disk,    \* path -> persisted store contents (namespace -> key -> value)
    exists,  \* set of store paths that exist on the filesystem
    proc,    \* the current process: position, flags, environment, context
    mig,     \* state of migrateLegacyToBolt in the current process
    run,     \* state of the cobra command run in the current process
    tr       \* state of tRun in the current process

vars == <<disk, exists, proc, mig, run, tr>>

----------------------------------------------------------------------------
(* Bounds *)

\* number of process starts (invocations of the tool) in one behaviour
MaxStarts == 2

Namespaces == {"default", "work"}
Keys == {"session", "k"}
Vals == {"v1"}

\* values a task function writes under key "k"
WriteVals == {"v1", "v2"}

----------------------------------------------------------------------------
(* Storage configurations: root.go lines 27-38 and the --storage flag *)

defaultBoltPath == "data"

DefaultLegacyStorage == [type |-> "legacy", path |-> "data.kv"]

DefaultBoltStorage == [type |-> "bolt", path |-> defaultBoltPath]

\* values a caller can pass explicitly with --storage
LegacyX == [type |-> "legacy", path |-> "/x"]
UnknownDriver == [type |-> "nosuch", path |-> "/x"]
NoPath == [type |-> "bolt", path |-> ""]
FlagConfigs == {DefaultBoltStorage, LegacyX, UnknownDriver, NoPath}

\* values the TDL_STORAGE environment variable can carry ("none": unset)
NoEnv == [type |-> "none", path |-> "none"]
EnvConfigs == {NoEnv, LegacyX}

Paths == {"data", "data.kv", "/x"}

----------------------------------------------------------------------------
(* Errors.  An error value is a sequence of error chains (multierr keeps a *)
(* list); a chain is the sequence of wrap tags ending in the cause.        *)

Nil == << >>

Err(cause) == << <<cause>> >>

\* errors.Wrap(err, tag) of go-faster/errors: nil stays nil
Wrap(err, tag) == [i \in 1..Len(err) |-> <<tag>> \o err[i]]

\* multierr.Append / multierr.Combine: nil operands vanish, the others are kept in order
MultiAppend(a, b) == a \o b

----------------------------------------------------------------------------
(* Stores: the kv package, modelled from the specification *)

EmptyStore == [n \in {} |-> {}]

AllKV == UNION {[K -> Vals] : K \in SUBSET Keys}

AllStores == UNION {[S -> AllKV] : S \in SUBSET Namespaces}

\* the legacy stores a first start can find: any set of namespaces, each one
\* either without keys or holding every key
InitStores == {st \in AllStores : \A n \in DOMAIN st : DOMAIN st[n] \in {{}, Keys}}

\* fsutil.PathExists
PathExists(p) == p \in exists

\* Engine.Namespaces(): the persisted namespace names
NamespacesOf(store) == DOMAIN store

\* Engine.MigrateTo(): the export blob, a set of <<namespace, set of <<key, value>>>>
ExportBlob(store) ==
    {<<n, {<<k, store[n][k]>> : k \in DOMAIN store[n]}>> : n \in DOMAIN store}

BlobNamespaces(blob) == {e[1] : e \in blob}

BlobEntry(blob, n) == CHOOSE e \in blob : e[1] = n

\* the key/value pairs of one blob entry as a function
BlobKV(pairs) ==
    [k \in {p[1] : p \in pairs} |-> (CHOOSE p \in pairs : p[1] = k)[2]]

MergeKV(old, new) ==
    [k \in DOMAIN old \cup DOMAIN new |-> IF k \in DOMAIN new THEN new[k] ELSE old[k]]

\* Engine.MigrateFrom(blob) restricted to the namespaces in S (S = all of them
\* on success, any proper subset when the bulk import fails part-way)
ImportBlob(store, blob, S) ==
    [n \in DOMAIN store \cup S |->
        IF n \in S
        THEN IF n \in DOMAIN store
             THEN MergeKV(store[n], BlobKV(BlobEntry(blob, n)[2]))
             ELSE BlobKV(BlobEntry(blob, n)[2])
        ELSE store[n]]

\* kv.NewWithMap(config): an unknown driver is a configuration error
KnownDriver(cfg) == cfg.type \in {"legacy", "bolt"}

\* kv.NewWithMap(config): a file-backed driver requires its path option
ValidConfig(cfg) == KnownDriver(cfg) /\ cfg.path # ""

\* kv.NewWithMap(config) succeeding: a file-backed engine creates its store
CreatedStores(cfg) == exists \cup {cfg.path}

NoBlob == {<<"none", {}>>}

----------------------------------------------------------------------------
(* Initial state *)

MigInit ==
    [calls |-> 0, legacy |-> "none", bolt |-> "none", meta |-> NoBlob,
     rerr |-> Nil, primary |-> Nil, closeErrs |-> Nil,
     legacyOps |-> << >>, boltOps |-> << >>,
     legacyCloses |-> 0, boltCloses |-> 0]

RunInit ==
    [engine |-> NoEnv, attached |-> 0, preErr |-> Nil,
     bodyRuns |-> 0, bodyErr |-> Nil,
     closeCalls |-> 0, syncCalls |-> 0, closeErr |-> Nil, syncErr |-> Nil,
     execErr |-> Nil]

TrInit ==
    [pc |-> "none", ns |-> "none", opened |-> FALSE, client |-> FALSE,
     clientKV |-> "none", authed |-> FALSE, loginCalls |-> 0,
     taskCalls |-> 0, taskNs |-> "none", taskErr |-> Nil,
     err |-> Nil, credsBefore |-> FALSE,
     kvBefore |-> EmptyStore, authCtx |-> "none", wrote |-> "none", steps |-> 0]

ProcInit ==
    [pc |-> "idle", starts |-> 0, flagChanged |-> FALSE,
     flagCfg |-> DefaultBoltStorage, envCfg |-> NoEnv, ns |-> "default",
     ctxDone |-> FALSE, boltAtStart |-> FALSE, legacyAtStart |-> EmptyStore,
     prevMigFailed |-> FALSE, logins |-> {}, priorLogins |-> {},
     written |-> {}]

Init ==
    /\ disk \in [Paths -> InitStores]
    /\ disk["data"] = EmptyStore
    /\ disk["/x"] = EmptyStore
    /\ exists = {"data.kv"}
    /\ proc = ProcInit
    /\ mig = MigInit
    /\ run = RunInit
    /\ tr = TrInit

----------------------------------------------------------------------------
(* Process start: the caller's flags and environment are fixed here *)

\* viper.GetStringMapString(consts.FlagStorage) with the flag bound to viper and
\* AutomaticEnv on: a changed flag wins, then TDL_STORAGE, then the flag's default
StorageConfig ==
    IF proc.flagChanged THEN proc.flagCfg
    ELSE IF proc.envCfg # NoEnv THEN proc.envCfg
    ELSE DefaultBoltStorage

\* line 74 without the test of the flag
MigrationTrigger_IgnoresFlag == ~PathExists(defaultBoltPath)

\* line 74 without the test of the store
MigrationTrigger_IgnoresStore == ~proc.flagChanged

\* the condition of line 74
MigrationTrigger == ~proc.flagChanged /\ ~PathExists(defaultBoltPath)

MigrationFailed == mig.calls > 0 /\ mig.rerr # Nil

ProcessStart ==
    /\ proc.pc \in {"idle", "exit"}
    /\ proc.starts < MaxStarts
    /\ \E changed \in BOOLEAN, fc \in FlagConfigs, ec \in EnvConfigs, n \in Namespaces :
          /\ ~changed => fc = DefaultBoltStorage
          /\ changed => ec = NoEnv
          /\ proc' = [pc |-> "prerun", starts |-> proc.starts + 1,
                      flagChanged |-> changed, flagCfg |-> fc, envCfg |-> ec,
                      ns |-> n, ctxDone |-> FALSE,
                      boltAtStart |-> PathExists(defaultBoltPath),
                      legacyAtStart |-> disk[DefaultLegacyStorage.path],
                      prevMigFailed |-> MigrationFailed,
                      logins |-> proc.logins, priorLogins |-> proc.logins,
                      written |-> proc.written]
    /\ mig' = MigInit
    /\ run' = RunInit
    /\ tr' = TrInit
    /\ UNCHANGED <<disk, exists>>

\* signal.NotifyContext: an interrupt cancels the shared context.  The context
\* is read by the command body and by tRun up to authentication, so an
\* interrupt is taken where it can still be seen: an earlier one is seen at the
\* body, and a task function may fail for any reason anyway
Interrupt ==
    /\ \/ proc.pc = "body"
       \/ proc.pc = "trun" /\ tr.pc \in {"t_open", "t_new", "t_auth"}
    /\ ~proc.ctxDone
    /\ proc' = [proc EXCEPT !.ctxDone = TRUE]
    /\ UNCHANGED <<disk, exists, mig, run, tr>>

----------------------------------------------------------------------------
(* PersistentPreRunE, lines 58-87 *)

PreRunDecide ==
    /\ proc.pc = "prerun"
    /\ IF MigrationTrigger
       THEN /\ mig' = [mig EXCEPT !.calls = @ + 1]
            /\ proc' = [proc EXCEPT !.pc = "mig_legacy"]
       ELSE /\ mig' = mig
            /\ proc' = [proc EXCEPT !.pc = "newengine"]
    /\ UNCHANGED <<disk, exists, run, tr>>

----------------------------------------------------------------------------
(* migrateLegacyToBolt, lines 194-213 *)

\* a deferred close that assigns its error instead of appending it
AppendInvoke_CloseReplaces(rerr, closeErr) == IF closeErr # Nil THEN closeErr ELSE rerr

\* multierr.AppendInvoke(&rerr, multierr.Close(e)) run as a deferred call
AppendInvoke(rerr, closeErr) == MultiAppend(rerr, closeErr)

\* line 212 importing into the legacy engine
MigrateFromEngine_Legacy == "legacy"

\* the engine line 212 imports into
MigrateFromEngine == "bolt"

\* line 207 exporting from the new engine
MigrateToEngine_Bolt == "bolt"

\* the engine line 207 exports from
MigrateToEngine == "legacy"

EnginePath(e) == IF e = "bolt" THEN DefaultBoltStorage.path ELSE DefaultLegacyStorage.path

MigFail(err, next) ==
    /\ mig' = [mig EXCEPT !.rerr = err, !.primary = err]
    /\ proc' = [proc EXCEPT !.pc = next]

\* lines 196-198 not returning after a failed creation of the legacy engine
MigNewLegacy_ContinuesOnError ==
    /\ proc.pc = "mig_legacy"
    /\ \/ /\ mig' = [mig EXCEPT !.legacy = "open"]
          /\ exists' = CreatedStores(DefaultLegacyStorage)
       \/ /\ mig' = [mig EXCEPT !.rerr = Wrap(Err("io"), "create legacy kv storage"),
                                !.primary = Wrap(Err("io"), "create legacy kv storage")]
          /\ exists' = exists
    /\ proc' = [proc EXCEPT !.pc = "mig_bolt"]
    /\ UNCHANGED <<disk, run, tr>>

\* lines 195-199
MigNewLegacy ==
    /\ proc.pc = "mig_legacy"
    /\ \/ /\ mig' = [mig EXCEPT !.legacy = "open"]
          /\ proc' = [proc EXCEPT !.pc = "mig_bolt"]
          /\ exists' = CreatedStores(DefaultLegacyStorage)
       \/ /\ MigFail(Wrap(Err("io"), "create legacy kv storage"), "mig_ret")
          /\ exists' = exists
    /\ UNCHANGED <<disk, run, tr>>

\* lines 201-205
MigNewBolt ==
    /\ proc.pc = "mig_bolt"
    /\ \/ /\ mig' = [mig EXCEPT !.bolt = "open"]
          /\ proc' = [proc EXCEPT !.pc = "mig_to"]
          /\ exists' = CreatedStores(DefaultBoltStorage)
       \/ /\ MigFail(Wrap(Err("io"), "create bolt kv storage"), "mig_close_legacy")
          /\ exists' = exists
    /\ UNCHANGED <<disk, run, tr>>

OpsLog(m, e, op) ==
    IF e = "legacy" THEN [m EXCEPT !.legacyOps = Append(@, op)]
    ELSE [m EXCEPT !.boltOps = Append(@, op)]

\* lines 207-210
MigMigrateTo ==
    /\ proc.pc = "mig_to"
    /\ \/ /\ mig' = [OpsLog(mig, MigrateToEngine, "MigrateTo")
                       EXCEPT !.meta = ExportBlob(disk[EnginePath(MigrateToEngine)])]
          /\ proc' = [proc EXCEPT !.pc = "mig_from"]
       \/ /\ mig' = [OpsLog(mig, MigrateToEngine, "MigrateTo")
                       EXCEPT !.rerr = Wrap(Err("io"), "migrate legacy to bolt"),
                              !.primary = Wrap(Err("io"), "migrate legacy to bolt")]
          /\ proc' = [proc EXCEPT !.pc = "mig_close_bolt"]
    /\ UNCHANGED <<disk, exists, run, tr>>

\* line 212; a failed bulk import may have applied any part of the blob
MigMigrateFrom ==
    /\ proc.pc = "mig_from"
    /\ LET p == EnginePath(MigrateFromEngine) IN
       \/ /\ disk' = [disk EXCEPT ![p] = ImportBlob(@, mig.meta, BlobNamespaces(mig.meta))]
          /\ mig' = OpsLog(mig, MigrateFromEngine, "MigrateFrom")
       \/ /\ \E S \in SUBSET BlobNamespaces(mig.meta) :
                /\ S # BlobNamespaces(mig.meta) \/ S = {}
                /\ disk' = [disk EXCEPT ![p] = ImportBlob(@, mig.meta, S)]
          /\ mig' = [OpsLog(mig, MigrateFromEngine, "MigrateFrom")
                       EXCEPT !.rerr = Err("import"), !.primary = Err("import")]
    /\ proc' = [proc EXCEPT !.pc = "mig_close_bolt"]
    /\ UNCHANGED <<exists, run, tr>>

\* line 205 missing: the new engine is left open when the function returns
MigCloseBolt_NotClosed ==
    /\ proc.pc = "mig_close_bolt"
    /\ proc' = [proc EXCEPT !.pc = "mig_close_legacy"]
    /\ UNCHANGED <<disk, exists, mig, run, tr>>

\* the deferred call of line 205
MigCloseBolt ==
    /\ proc.pc = "mig_close_bolt"
    /\ \E cerr \in {Nil, Err("close bolt")} :
          mig' = [OpsLog(mig, "bolt", "Close")
                    EXCEPT !.bolt = "closed", !.boltCloses = @ + 1,
                           !.rerr = AppendInvoke(@, cerr),
                           !.closeErrs = MultiAppend(@, cerr)]
    /\ proc' = [proc EXCEPT !.pc = "mig_close_legacy"]
    /\ UNCHANGED <<disk, exists, run, tr>>

\* the deferred call of line 199
MigCloseLegacy ==
    /\ proc.pc = "mig_close_legacy"
    /\ \E cerr \in {Nil, Err("close legacy")} :
          mig' = [OpsLog(mig, "legacy", "Close")
                    EXCEPT !.legacy = "closed", !.legacyCloses = @ + 1,
                           !.rerr = AppendInvoke(@, cerr),
                           !.closeErrs = MultiAppend(@, cerr)]
    /\ proc' = [proc EXCEPT !.pc = "mig_ret"]
    /\ UNCHANGED <<disk, exists, run, tr>>

\* lines 75-77 with the error of migrateLegacyToBolt ignored
MigReturn_ErrorDropped ==
    /\ proc.pc = "mig_ret"
    /\ proc' = [proc EXCEPT !.pc = "newengine"]
    /\ UNCHANGED <<disk, exists, mig, run, tr>>

\* lines 75-77: the caller of migrateLegacyToBolt
MigReturn ==
    /\ proc.pc = "mig_ret"
    /\ IF mig.rerr # Nil
       THEN /\ run' = [run EXCEPT !.preErr = Wrap(mig.rerr, "migrate legacy to bolt"),
                                  !.execErr = Wrap(mig.rerr, "migrate legacy to bolt")]
            /\ proc' = [proc EXCEPT !.pc = "exit"]
       ELSE /\ run' = run
            /\ proc' = [proc EXCEPT !.pc = "newengine"]
    /\ UNCHANGED <<disk, exists, mig, tr>>

\* lines 80-86 with the error of kv.NewWithMap ignored
PreRunNewEngine_ErrorIgnored ==
    /\ proc.pc = "newengine"
    /\ run' = [run EXCEPT !.engine = StorageConfig, !.attached = @ + 1]
    /\ exists' = exists
    /\ proc' = [proc EXCEPT !.pc = "body"]
    /\ UNCHANGED <<disk, mig, tr>>

\* the error of kv.NewWithMap: a configuration error, else an I/O error
NewEngineErr == Err(IF ValidConfig(StorageConfig) THEN "io" ELSE "config")

\* lines 80-86
PreRunNewEngine ==
    /\ proc.pc = "newengine"
    /\ \/ /\ ValidConfig(StorageConfig)
          /\ run' = [run EXCEPT !.engine = StorageConfig, !.attached = @ + 1]
          /\ exists' = CreatedStores(StorageConfig)
          /\ proc' = [proc EXCEPT !.pc = "body"]
       \/ /\ run' = [run EXCEPT !.preErr = Wrap(NewEngineErr, "create kv storage"),
                                !.execErr = Wrap(NewEngineErr, "create kv storage")]
          /\ exists' = exists
          /\ proc' = [proc EXCEPT !.pc = "exit"]
    /\ UNCHANGED <<disk, mig, tr>>

----------------------------------------------------------------------------
(* The command body (a subcommand's RunE) and tRun, lines 170-192 *)

\* line 172 opening a fixed namespace whatever the flag says
NamespaceFlag_Fixed == "default"

\* viper.GetString(consts.FlagNamespace), line 172
NamespaceFlag == proc.ns

\* line 177 not handing the opened namespace handle to the client
OptionsKV_NotHandle(kvd) == "none"

\* Options.KV of line 177: the handle the client keeps its session in
OptionsKV(kvd) == kvd

\* line 174 wrapping with the tag of line 186
OpenErrTag_SameAsCreate == "create client"

\* the wrap tags of lines 174 and 186
OpenErrTag == "open kv storage"

CreateErrTag == "create client"

\* the store behind the process-wide engine kv.From(ctx)
EngineStore == disk[run.engine.path]

\* the namespace handle holds persisted credentials
HasCredentials(store, n) == n \in DOMAIN store /\ "session" \in DOMAIN store[n]

\* writing one key through a namespace handle
SetKey(store, n, k, v) ==
    [m \in DOMAIN store \cup {n} |->
        IF m = n
        THEN MergeKV(IF n \in DOMAIN store THEN store[n] ELSE [x \in {} |-> "v1"],
                     [x \in {k} |-> v])
        ELSE store[m]]

\* a command that does not need a session
BodyPlain ==
    /\ proc.pc = "body"
    /\ \E e \in {Nil, Err("business")} \cup (IF proc.ctxDone THEN {Err("context canceled")} ELSE {}) :
          run' = [run EXCEPT !.bodyRuns = @ + 1, !.bodyErr = e]
    /\ proc' = [proc EXCEPT !.pc = "bodyret"]
    /\ UNCHANGED <<disk, exists, mig, tr>>

\* a command whose RunE returns tRun(cmd.Context(), f)
BodyCallTRun ==
    /\ proc.pc = "body"
    /\ run' = [run EXCEPT !.bodyRuns = @ + 1]
    /\ proc' = [proc EXCEPT !.pc = "trun"]
    /\ tr' = [TrInit EXCEPT !.pc = "t_open"]
    /\ UNCHANGED <<disk, exists, mig>>

TRunFail(e) == tr' = [tr EXCEPT !.err = e, !.pc = "t_ret", !.steps = @ + 1]

\* lines 172-175
TRunOpen ==
    /\ tr.pc = "t_open"
    /\ \/ tr' = [tr EXCEPT !.ns = NamespaceFlag, !.opened = TRUE, !.pc = "t_new",
                           !.credsBefore = HasCredentials(EngineStore, NamespaceFlag),
                           !.kvBefore = EngineStore, !.steps = @ + 1]
       \/ TRunFail(Wrap(Err("io"), OpenErrTag))
    /\ UNCHANGED <<disk, exists, proc, mig, run>>

\* lines 176-187
TRunNewClient ==
    /\ tr.pc = "t_new"
    /\ \/ tr' = [tr EXCEPT !.client = TRUE, !.clientKV = OptionsKV(tr.ns), !.pc = "t_auth",
                           !.steps = @ + 1]
       \/ TRunFail(Wrap(Err("io"), CreateErrTag))
    /\ UNCHANGED <<disk, exists, proc, mig, run>>

\* line 189 handing RunWithAuth a context that is never cancelled
AuthCtxDone_Background == FALSE

\* line 189: the context handed to RunWithAuth is the shared one
AuthCtxDone == proc.ctxDone

\* the shared context as it is when authentication runs
CtxNow == IF proc.ctxDone THEN "done" ELSE "live"

\* line 189, tclientcore.RunWithAuth up to the call of f: reuse persisted
\* credentials, else drive the login collaborator and persist on success
TRunAuth ==
    /\ tr.pc = "t_auth"
    /\ \/ /\ AuthCtxDone
          /\ tr' = [tr EXCEPT !.err = Err("context canceled"), !.pc = "t_ret",
                              !.authCtx = CtxNow, !.steps = @ + 1]
          /\ UNCHANGED <<disk, proc>>
       \/ /\ ~AuthCtxDone
          /\ HasCredentials(EngineStore, tr.clientKV)
          /\ tr' = [tr EXCEPT !.authed = TRUE, !.pc = "t_task",
                              !.authCtx = CtxNow, !.steps = @ + 1]
          /\ UNCHANGED <<disk, proc>>
       \/ /\ ~AuthCtxDone
          /\ ~HasCredentials(EngineStore, tr.clientKV)
          /\ \/ /\ tr' = [tr EXCEPT !.authed = TRUE, !.loginCalls = @ + 1, !.pc = "t_task",
                                    !.authCtx = CtxNow, !.steps = @ + 1]
                /\ disk' = [disk EXCEPT ![run.engine.path] =
                               IF tr.clientKV \in Namespaces
                               THEN SetKey(@, tr.clientKV, "session", "v1") ELSE @]
                /\ proc' = [proc EXCEPT !.logins = @ \cup {<<run.engine.path, tr.ns>>}]
             \/ /\ tr' = [tr EXCEPT !.loginCalls = @ + 1, !.pc = "t_ret",
                                    !.err = Wrap(Err("io"), "auth"),
                                    !.authCtx = CtxNow, !.steps = @ + 1]
                /\ UNCHANGED <<disk, proc>>
    /\ UNCHANGED <<exists, mig, run>>

\* the writes the tool has made under key "k", per store and requested namespace
Written(w, p, n, v) == {e \in w : ~(e[1] = p /\ e[2] = n)} \cup {<<p, n, v>>}

\* lines 189-191 wrapping the error of f before returning it
TRunTask_ErrorWrapped ==
    /\ tr.pc = "t_task"
    /\ \E e \in {Nil, Err("business"), Err("io")} :
          tr' = [tr EXCEPT !.taskCalls = @ + 1, !.taskNs = tr.ns, !.taskErr = e,
                           !.err = Wrap(e, "run task"), !.pc = "t_ret", !.steps = @ + 1]
    /\ UNCHANGED <<disk, exists, proc, mig, run>>

\* line 190: f(ctx, client, kvd); f may write through the handle kvd (a task
\* that fails is taken to have written nothing), and its error is returned as
\* it is
TRunTask ==
    /\ tr.pc = "t_task"
    /\ \E e \in {Nil, Err("business"), Err("io")}, v \in {"none"} \cup WriteVals :
          /\ e # Nil => v = "none"
          /\ tr' = [tr EXCEPT !.taskCalls = @ + 1, !.taskNs = tr.ns, !.taskErr = e,
                              !.err = e, !.pc = "t_ret", !.wrote = v, !.steps = @ + 1]
          /\ IF v = "none"
             THEN UNCHANGED <<disk, proc>>
             ELSE /\ disk' = [disk EXCEPT ![run.engine.path] = SetKey(@, tr.ns, "k", v)]
                  /\ proc' = [proc EXCEPT !.written =
                                 Written(@, run.engine.path, NamespaceFlag, v)]
    /\ UNCHANGED <<exists, mig, run>>

\* tRun returns to the command body, which returns tRun's error
TRunReturn ==
    /\ tr.pc = "t_ret"
    /\ proc.pc = "trun"
    /\ run' = [run EXCEPT !.bodyErr = tr.err]
    /\ proc' = [proc EXCEPT !.pc = "bodyret"]
    /\ tr' = [tr EXCEPT !.pc = "done"]
    /\ UNCHANGED <<disk, exists, mig>>

----------------------------------------------------------------------------
(* cobra's Command.execute after RunE, PersistentPostRunE (lines 88-93) and *)
(* Execute (lines 265-273)                                                  *)

\* cobra returns RunE's error at once; the post-run hooks run only after a nil error
CobraAfterRun ==
    /\ proc.pc = "bodyret"
    /\ IF run.bodyErr # Nil
       THEN /\ run' = [run EXCEPT !.execErr = run.bodyErr]
            /\ proc' = [proc EXCEPT !.pc = "exit"]
       ELSE /\ run' = run
            /\ proc' = [proc EXCEPT !.pc = "postrun"]
    /\ UNCHANGED <<disk, exists, mig, tr>>

\* lines 88-93 returning a Close error before the logger is flushed
PersistentPostRunE_ShortCircuit ==
    /\ proc.pc = "postrun"
    /\ \E cerr \in {Nil, Err("close engine")}, serr \in {Nil, Err("sync logger")} :
          run' = IF cerr # Nil
                 THEN [run EXCEPT !.closeCalls = @ + 1, !.closeErr = cerr, !.execErr = cerr]
                 ELSE [run EXCEPT !.closeCalls = @ + 1, !.syncCalls = @ + 1,
                                  !.closeErr = cerr, !.syncErr = serr, !.execErr = serr]
    /\ proc' = [proc EXCEPT !.pc = "exit"]
    /\ UNCHANGED <<disk, exists, mig, tr>>

\* lines 88-93: both arguments of multierr.Combine are evaluated
PersistentPostRunE ==
    /\ proc.pc = "postrun"
    /\ \E cerr \in {Nil, Err("close engine")}, serr \in {Nil, Err("sync logger")} :
          run' = [run EXCEPT !.closeCalls = @ + 1, !.syncCalls = @ + 1,
                             !.closeErr = cerr, !.syncErr = serr,
                             !.execErr = MultiAppend(cerr, serr)]
    /\ proc' = [proc EXCEPT !.pc = "exit"]
    /\ UNCHANGED <<disk, exists, mig, tr>>

----------------------------------------------------------------------------

Next ==
    \/ ProcessStart
    \/ Interrupt
    \/ PreRunDecide
    \/ MigNewLegacy
    \/ MigNewBolt
    \/ MigMigrateTo
    \/ MigMigrateFrom
    \/ MigCloseBolt
    \/ MigCloseLegacy
    \/ MigReturn
    \/ PreRunNewEngine
    \/ BodyPlain
    \/ BodyCallTRun
    \/ TRunOpen
    \/ TRunNewClient
    \/ TRunAuth
    \/ TRunTask
    \/ TRunReturn
    \/ CobraAfterRun
    \/ PersistentPostRunE

Spec == Init /\ [][Next]_vars

----------------------------------------------------------------------------
(* Properties *)

MigPcs == {"mig_legacy", "mig_bolt", "mig_to", "mig_from", "mig_close_bolt",
           "mig_close_legacy"}

\* positions after PersistentPreRunE returned nil
StartedPcs == {"body", "trun", "bodyret", "postrun"}

\* migrateLegacyToBolt was called in this process and has returned
MigReturned == mig.calls = 1 /\ proc.pc \notin MigPcs

\* the wrap tag an error carries, "untagged" for a bare cause
Kind(err) ==
    IF err = Nil THEN "nil"
    ELSE IF Len(err[1]) > 1 THEN Head(err[1]) ELSE "untagged"

\* C1: a process start without a storage flag that follows a start whose
\* migration returned an error still finds the migration trigger satisfied and
\* runs migrateLegacyToBolt again.
C1_FailedMigrationRetried ==
    (proc.prevMigFailed /\ ~proc.flagChanged) =>
        IF proc.pc = "prerun" THEN MigrationTrigger ELSE mig.calls = 1

\* C2: once the command body has returned and Execute is done, engine Close and
\* logger Sync have each been invoked exactly once, whatever the body returned.
C2_TeardownExactlyOnce ==
    (proc.pc = "exit" /\ run.bodyRuns = 1) =>
        (run.closeCalls = 1 /\ run.syncCalls = 1)

\* C3: with the storage flag set explicitly the migration never runs, and with
\* the explicit configuration {legacy, "/x"} a new-format default store that was
\* absent at process start is still absent once startup has finished.
C3_ExplicitFlagSuppressesMigration ==
    /\ proc.flagChanged =>
          (mig.calls = 0 /\ mig.legacyOps = << >> /\ mig.boltOps = << >>
             /\ mig.legacy = "none" /\ mig.bolt = "none")
    /\ (proc.flagChanged /\ proc.flagCfg = LegacyX /\ ~proc.boltAtStart
          /\ proc.pc \in StartedPcs \cup {"exit"})
          => ~PathExists(defaultBoltPath)

C3_Witness ==
    /\ proc.flagChanged /\ proc.flagCfg = LegacyX /\ ~proc.boltAtStart
    /\ proc.pc = "body" /\ run.attached = 1
    /\ ~PathExists(defaultBoltPath)

\* C4: in one process start migrateLegacyToBolt runs at most once, and only when
\* the storage flag was not changed and the new-format default store did not
\* exist; when that store exists the migration path creates no engine, applies
\* no operation to either store and leaves the legacy store as it was.
C4_MigrationAtMostOnceAndOnlyWhenTriggered ==
    /\ mig.calls <= 1
    /\ mig.calls = 1 => (~proc.flagChanged /\ ~proc.boltAtStart)
    /\ (proc.boltAtStart /\ proc.pc # "idle") =>
          /\ mig.calls = 0
          /\ mig.legacy = "none" /\ mig.bolt = "none"
          /\ mig.legacyOps = << >> /\ mig.boltOps = << >>
          /\ (proc.pc \in {"prerun", "newengine"} =>
                disk[DefaultLegacyStorage.path] = proc.legacyAtStart)

C4_Witness ==
    /\ proc.boltAtStart /\ ~proc.flagChanged
    /\ proc.pc = "body" /\ mig.calls = 0

\* C5: without a storage flag and with the new-format default store absent,
\* after a successful startup every namespace of the legacy store is listed by
\* Namespaces() of the process-wide engine and holds the same key/value pairs.
C5_MigratedNamespacesOnProcessEngine ==
    (~proc.flagChanged /\ ~proc.boltAtStart /\ proc.pc = "body") =>
        \A n \in NamespacesOf(proc.legacyAtStart) :
            /\ n \in NamespacesOf(EngineStore)
            /\ EngineStore[n] = proc.legacyAtStart[n]

\* C6: any failure inside the migration makes PersistentPreRunE return a
\* non-nil error wrapped as "migrate legacy to bolt"; the process-wide engine is
\* then neither created nor attached and the command body does not run.
C6_MigrationFailureAbortsStartup ==
    (MigReturned /\ proc.pc # "mig_ret" /\ (mig.primary # Nil \/ mig.closeErrs # Nil)) =>
        /\ run.preErr # Nil
        /\ \A i \in 1..Len(run.preErr) : Head(run.preErr[i]) = "migrate legacy to bolt"
        /\ run.execErr = run.preErr
        /\ run.engine = NoEnv /\ run.attached = 0
        /\ run.bodyRuns = 0 /\ tr.pc = "none"
        /\ proc.pc = "exit"

C6_Witness ==
    /\ MigReturned /\ proc.pc = "exit"
    /\ mig.primary = Nil /\ mig.closeErrs # Nil
    /\ run.preErr # Nil /\ run.bodyRuns = 0

\* C7: when migrateLegacyToBolt has returned, every engine it created has been
\* closed exactly once, and the returned error is the primary error followed by
\* every close error: non-nil whenever either failed, the primary never replaced.
C7_EnginesClosedErrorsAggregated ==
    MigReturned =>
        /\ mig.legacy \in {"none", "closed"} /\ mig.bolt \in {"none", "closed"}
        /\ mig.legacyCloses = (IF mig.legacy = "closed" THEN 1 ELSE 0)
        /\ mig.boltCloses = (IF mig.bolt = "closed" THEN 1 ELSE 0)
        /\ mig.rerr = mig.primary \o mig.closeErrs
        /\ (mig.rerr # Nil <=> (mig.primary # Nil \/ mig.closeErrs # Nil))

C7_Witness ==
    /\ proc.pc = "mig_ret"
    /\ mig.primary # Nil /\ Len(mig.closeErrs) = 2
    /\ mig.legacyCloses = 1 /\ mig.boltCloses = 1

\* C8: the only data operation the migration applies to the legacy engine is
\* MigrateTo (MigrateFrom goes to the new engine only), and the legacy store's
\* contents after the run equal its contents before it, success or failure.
C8_LegacyStoreNotMutated ==
    /\ \A i \in 1..Len(mig.legacyOps) : mig.legacyOps[i] \in {"MigrateTo", "Close"}
    /\ \A i \in 1..Len(mig.boltOps) : mig.boltOps[i] \in {"MigrateFrom", "Close"}
    /\ mig.calls = 1 => disk[DefaultLegacyStorage.path] = proc.legacyAtStart

C8_Witness ==
    /\ proc.pc = "mig_ret"
    /\ mig.legacyOps = <<"MigrateTo", "Close">>
    /\ mig.boltOps = <<"MigrateFrom", "Close">>
    /\ mig.primary # Nil
    /\ proc.legacyAtStart # EmptyStore
    /\ disk[DefaultBoltStorage.path] # EmptyStore

C14_TRunOrderAndPropagation ==
    /\ tr.client => tr.opened
    /\ (tr.authed \/ tr.loginCalls > 0 \/ tr.authCtx # "none") => tr.client
    /\ tr.taskCalls <= 1
    /\ tr.taskCalls = 1 =>
          /\ tr.opened /\ tr.client /\ tr.authed
          /\ tr.taskNs = tr.ns /\ tr.taskNs = proc.ns
          /\ tr.steps = 4
          /\ tr.pc \in {"t_ret", "done"}
          /\ tr.err = tr.taskErr
          /\ (tr.pc = "done" => run.bodyErr = tr.taskErr)
    /\ (tr.pc \in {"t_ret", "done"} /\ ~tr.opened) =>
          (~tr.client /\ tr.authCtx = "none" /\ tr.taskCalls = 0 /\ tr.steps = 1)
    /\ (tr.pc \in {"t_ret", "done"} /\ tr.opened /\ ~tr.client) =>
          (tr.authCtx = "none" /\ tr.loginCalls = 0 /\ tr.taskCalls = 0 /\ tr.steps = 2)

C14_Witness ==
    /\ tr.pc = "done"
    /\ tr.taskCalls = 1
    /\ tr.taskErr = Err("business")
    /\ run.bodyErr = Err("business")
    /\ tr.taskNs = "work"

\* C15: with a storage configuration that names an unrecognized driver or
\* lacks the path option, PersistentPreRunE returns a non-nil error, no engine
\* is attached to the command context and the command body does not run.
C15_BadConfigFailsStartup ==
    (/\ ~ValidConfig(StorageConfig)
     /\ proc.pc \notin {"idle", "prerun", "newengine", "mig_ret"} \cup MigPcs) =>
        /\ proc.pc = "exit"
        /\ run.preErr # Nil
        /\ run.execErr = run.preErr
        /\ run.engine = NoEnv /\ run.attached = 0
        /\ run.bodyRuns = 0 /\ tr.pc = "none"
        /\ run.closeCalls = 0

C15_Witness ==
    /\ proc.pc = "exit"
    /\ proc.flagChanged /\ proc.flagCfg = UnknownDriver
    /\ run.preErr = Wrap(Err("config"), "create kv storage")
    /\ run.attached = 0 /\ run.bodyRuns = 0

\* C16: when PersistentPostRunE has run (as it has once Execute is done after
\* a body that returned nil), engine Close and logger Sync were each invoked,
\* Sync also after a failed Close, and the returned error is the Close error
\* followed by the Sync error: non-nil exactly when one of them failed, holding
\* both when both failed.
C16_TeardownCombinesErrors ==
    (\/ run.closeCalls > 0
     \/ run.syncCalls > 0
     \/ (proc.pc = "exit" /\ run.bodyRuns = 1 /\ run.bodyErr = Nil)) =>
        /\ run.closeCalls = 1 /\ run.syncCalls = 1
        /\ proc.pc = "exit"
        /\ run.execErr = run.closeErr \o run.syncErr
        /\ (run.execErr # Nil <=> (run.closeErr # Nil \/ run.syncErr # Nil))
        /\ (run.closeErr # Nil /\ run.syncErr # Nil) =>
              run.execErr = <<<<"close engine">>, <<"sync logger">>>>

C16_Witness ==
    /\ proc.pc = "exit"
    /\ run.closeCalls = 1 /\ run.syncCalls = 1
    /\ run.closeErr # Nil /\ run.syncErr # Nil
    /\ Len(run.execErr) = 2

\* engine instances open on the new-format default store
OpenOnDefaultBolt ==
    (IF mig.bolt = "open" THEN 1 ELSE 0)
    + (IF run.engine # NoEnv /\ run.engine.path = defaultBoltPath /\ run.closeCalls = 0
       THEN 1 ELSE 0)

\* C17: never are two engine instances open on the new-format default store;
\* the process-wide engine is created and attached at most once per start, and
\* only when the migration decision is over without error, with both engines
\* of the migration, if it ran, closed before.
C17_OneEngineOnNewStore ==
    /\ OpenOnDefaultBolt <= 1
    /\ run.attached <= 1
    /\ run.engine # NoEnv <=> run.attached = 1
    /\ run.attached = 1 =>
          /\ proc.pc \notin {"idle", "prerun", "mig_ret", "newengine"} \cup MigPcs
          /\ mig.legacy # "open" /\ mig.bolt # "open"
          /\ run.preErr = Nil
          /\ mig.calls = 1 =>
                /\ mig.rerr = Nil
                /\ mig.legacy = "closed" /\ mig.bolt = "closed"
                /\ mig.legacyCloses = 1 /\ mig.boltCloses = 1

C17_Witness ==
    /\ proc.pc = "body"
    /\ run.attached = 1 /\ run.engine = DefaultBoltStorage
    /\ mig.calls = 1 /\ mig.bolt = "closed" /\ mig.legacy = "closed"
    /\ OpenOnDefaultBolt = 1

\* C18: inside migrateLegacyToBolt the new engine is created only after the
\* legacy engine was, MigrateTo is called only with both engines created, and
\* MigrateFrom only on the new engine and only with the blob of a MigrateTo
\* that succeeded; after a failed legacy creation the new-format store does not
\* exist, and after a failed MigrateTo nothing is imported into it.
C18_MigrationStepsGuarded ==
    /\ mig.bolt # "none" => mig.legacy # "none"
    /\ (mig.legacyOps # << >> /\ mig.legacyOps[1] = "MigrateTo") =>
          (mig.legacy # "none" /\ mig.bolt # "none")
    /\ \A i \in 1..Len(mig.boltOps) : mig.boltOps[i] = "MigrateFrom" =>
          /\ mig.legacyOps # << >> /\ mig.legacyOps[1] = "MigrateTo"
          /\ mig.meta # NoBlob
          /\ mig.meta = ExportBlob(proc.legacyAtStart)
    /\ \A i \in 1..Len(mig.legacyOps) : mig.legacyOps[i] # "MigrateFrom"
    /\ (mig.calls = 1 /\ mig.legacy = "none" /\ proc.pc # "mig_legacy") =>
          (mig.bolt = "none" /\ ~PathExists(defaultBoltPath)
             /\ mig.legacyOps = << >> /\ mig.boltOps = << >>)
    /\ (mig.legacyOps # << >> /\ mig.legacyOps[1] = "MigrateTo" /\ mig.meta = NoBlob) =>
          /\ \A i \in 1..Len(mig.boltOps) : mig.boltOps[i] = "Close"
          /\ disk[DefaultBoltStorage.path] = EmptyStore
          /\ mig.primary = Wrap(Err("io"), "migrate legacy to bolt")

C18_Witness ==
    /\ proc.pc = "mig_ret"
    /\ mig.legacyOps = <<"MigrateTo", "Close">>
    /\ mig.boltOps = <<"Close">>
    /\ mig.meta = NoBlob
    /\ proc.legacyAtStart # EmptyStore
    /\ disk[DefaultBoltStorage.path] = EmptyStore

====
